---- MODULE Spec2Model ----
(***************************************************************************)
(* QR Code Login System: the Users data-access object (users_dao.py) and   *)
(* the scanning loop of QrLogger (qr_db_logger.py), as a state machine.    *)
(*                                                                         *)
(* The SQLite database (tables Users and Logins) and the directory of log  *)
(* images persist across runs of the program; everything else is the       *)
(* memory of one process: the cached whitelist, recent_accesses, the local *)
(* variables of run and log_qr_activity, and the position in the loop.     *)
(***************************************************************************)
EXTENDS Integers, Sequences, FiniteSets, TLC

(***************************************************************************)
(* Bounds of the model.                                                    *)
(***************************************************************************)
\* Wall-clock instants are 1..MaxTime (+1 after the last validation delay).
MaxTime == 4
\* Timestamps a direct caller of login and logout passes are 1..MaxStamp.
MaxStamp == 2

(***************************************************************************)
(* Values.                                                                 *)
(***************************************************************************)
\* SQL NULL in the logoutTime column (users_dao.py:86, "logoutTime TEXT").
NullTime == 0
\* Python None / SQL NULL in the status column (users_dao.py:80).
None == "None"

\* The two users every Users() constructor adds (users_dao.py:111-112).
SeedUsers ==
    [ h65ld310 |-> [firstName |-> "John", lastName |-> "Buck",
                    email |-> "jbuck@gmail.com", status |-> None],
      d08ae169 |-> [firstName |-> "Jane", lastName |-> "Doe",
                    email |-> "jdoe@gmail.com", status |-> None] ]

SeedCodes == DOMAIN SeedUsers

\* A code no user has (test_qr_db_logger.py:55).
UnknownCode == "unknownQR"

\* A code an administrator may add later with add_user.
ExtraCode == "a11bc222"

\* Every text a QR code shown to the camera may carry.
Payloads == SeedCodes \cup {UnknownCode, ExtraCode}

\* What cap.read() and decode() can deliver for one frame: a frame showing
\* one QR code with the given payload, a frame showing no QR code, a frame
\* on which decode() raises, or no frame at all (ret False, frame None).
NoQR == "NoQR"
Undecodable == "Undecodable"
ReadFail == "ReadFail"
NoFrame == "NoFrame"
Frames == Payloads \cup {NoQR, Undecodable, ReadFail}

\* Values the status column can hold: add_user stores what it is given.
Statuses == {None, "Active", "Inactive", "Pending"}

(***************************************************************************)
(* users_dao.py: the effect of each method on the tables.                  *)
(* U is the Users table, a function code -> row; L is the Logins table, a  *)
(* sequence of rows in insertion order.                                    *)
(***************************************************************************)
Row(first, last, email, st) ==
    [firstName |-> first, lastName |-> last, email |-> email, status |-> st]

\* Variant of add_user: INSERT OR REPLACE instead of INSERT OR IGNORE.
add_user_or_replace(U, code, first, last, email, st) ==
    [c \in DOMAIN U \cup {code} |->
        IF c = code THEN Row(first, last, email, st) ELSE U[c]]

\* Variant of add_user: the status parameter is not bound in the INSERT, the
\* column is left NULL.
add_user_drops_status(U, code, first, last, email, st) ==
    IF code \in DOMAIN U
        THEN U
        ELSE [c \in DOMAIN U \cup {code} |->
                 IF c = code THEN Row(first, last, email, None) ELSE U[c]]

\* INSERT OR IGNORE INTO Users: a row whose code exists is left alone.
add_user(U, code, first, last, email, st) ==
    IF code \in DOMAIN U
        THEN U
        ELSE [c \in DOMAIN U \cup {code} |->
                 IF c = code THEN Row(first, last, email, st) ELSE U[c]]

\* Users.__init__: the tables are created if missing and the two seeded
\* users are added with status None.
users_init(U) ==
    LET U1 == add_user(U, "h65ld310", "John", "Buck", "jbuck@gmail.com", None)
    IN  add_user(U1, "d08ae169", "Jane", "Doe", "jdoe@gmail.com", None)

\* SELECT * FROM Users WHERE code=?  (fetchone: the row, or None as <<>>).
get_info(U, code) ==
    IF code \in DOMAIN U
        THEN <<code, U[code].firstName, U[code].lastName, U[code].email,
               U[code].status>>
        ELSE <<>>

\* Variant of get_whitelist: np.array(codes)[0] instead of [:, 0], the first
\* fetched row instead of the first column.
get_whitelist_first_row(U) ==
    IF DOMAIN U = {} THEN {} ELSE {CHOOSE c \in DOMAIN U : TRUE}

\* SELECT code FROM Users.
get_whitelist(U) == DOMAIN U

\* set_status raises (TypeError on user[4]) when get_info returned None.
set_status_raises(U, code) == get_info(U, code) = <<>>

\* The value set_status returns: the new status, or None when the stored
\* status is neither None, 'Inactive' nor 'Active'.
set_status_ret(U, code) ==
    LET user == get_info(U, code)
    IN  IF user[5] = "Inactive" \/ user[5] = None THEN "Active"
        ELSE IF user[5] = "Active" THEN "Inactive"
        ELSE None

\* Variant of set_status: the test "or user[4] is None" is missing.
set_status_skips_none(U, code) ==
    LET row == get_info(U, code)
    IN  IF row[5] = "Inactive"
            THEN [U EXCEPT ![code].status = "Active"]
        ELSE IF row[5] = "Active"
            THEN [U EXCEPT ![code].status = "Inactive"]
        ELSE U

\* Variant of set_status: the UPDATE statements have no "WHERE code=?".
set_status_every_user(U, code) ==
    LET user == get_info(U, code)
    IN  IF user[5] = "Inactive" \/ user[5] = None
            THEN [c \in DOMAIN U |-> [U[c] EXCEPT !.status = "Active"]]
        ELSE IF user[5] = "Active"
            THEN [c \in DOMAIN U |-> [U[c] EXCEPT !.status = "Inactive"]]
        ELSE U

\* The Users table after set_status(code).
set_status(U, code) ==
    LET user == get_info(U, code)
    IN  IF user[5] = "Inactive" \/ user[5] = None
            THEN [U EXCEPT ![code].status = "Active"]
        ELSE IF user[5] = "Active"
            THEN [U EXCEPT ![code].status = "Inactive"]
        ELSE U

\* timestamp is the PRIMARY KEY of Logins: a second INSERT with the same
\* timestamp raises sqlite3.IntegrityError, turned into Exception.
login_raises(L, timestamp) ==
    \E i \in 1..Len(L) : L[i].timestamp = timestamp

\* Variant of login: INSERT OR REPLACE, the row of an existing timestamp is
\* replaced by the new one.
login_or_replace(L, timestamp, userCode) ==
    Append(SelectSeq(L, LAMBDA r : r.timestamp # timestamp),
           [timestamp |-> timestamp, logoutTime |-> NullTime,
            userCode |-> userCode])

\* Variant of login: the new row is placed before the rows already stored.
login_at_front(L, timestamp, userCode) ==
    IF login_raises(L, timestamp)
        THEN L
        ELSE <<[timestamp |-> timestamp, logoutTime |-> NullTime,
                userCode |-> userCode]>> \o L

\* INSERT INTO Logins(timestamp, userCode): logoutTime is NULL.  Foreign
\* keys are not enforced by the connection (no PRAGMA foreign_keys).
login(L, timestamp, userCode) ==
    IF login_raises(L, timestamp)
        THEN L
        ELSE Append(L, [timestamp |-> timestamp, logoutTime |-> NullTime,
                        userCode |-> userCode])

\* Variant of logout: "AND logoutTime IS NULL" is missing from the WHERE.
logout_every_row(L, userCode, logoutTime) ==
    [i \in 1..Len(L) |->
        IF L[i].userCode = userCode
            THEN [L[i] EXCEPT !.logoutTime = logoutTime]
            ELSE L[i]]

\* UPDATE Logins SET logoutTime = ? WHERE userCode = ? AND logoutTime IS NULL
logout(L, userCode, logoutTime) ==
    [i \in 1..Len(L) |->
        IF L[i].userCode = userCode /\ L[i].logoutTime = NullTime
            THEN [L[i] EXCEPT !.logoutTime = logoutTime]
            ELSE L[i]]

(***************************************************************************)
(* qr_db_logger.py: process_qr.                                            *)
(***************************************************************************)
\* decode(frame) raises on a frame it cannot handle and when there is no
\* frame; the except branch then returns info, which is not bound yet.
process_qr_raises(fr) == fr \in {Undecodable, ReadFail}

\* Variant of the accept rule: the whitelist test is missing.
accepts_any_code(fr, authorized, recent) ==
    /\ fr \in Payloads
    /\ (Len(recent) = 0 \/ recent[Len(recent)] # fr)

\* Variant of the accept rule: "data.decode() not in recent_accesses" for
\* "recent_accesses[-1] != data.decode()".
accepts_once_ever(fr, authorized, recent) ==
    /\ fr \in Payloads
    /\ fr \in authorized
    /\ \A i \in 1..Len(recent) : recent[i] # fr

\* The accept rule of process_qr.
accepts(fr, authorized, recent) ==
    /\ fr \in Payloads
    /\ fr \in authorized
    /\ (Len(recent) = 0 \/ recent[Len(recent)] # fr)

\* The list process_qr returns.
process_qr(fr, authorized, recent, t) ==
    IF accepts(fr, authorized, recent) THEN <<fr, fr, t>> ELSE <<fr>>

\* recent_accesses after process_qr.
process_qr_recent(fr, authorized, recent) ==
    IF accepts(fr, authorized, recent) THEN Append(recent, fr) ELSE recent

(***************************************************************************)
(* State.                                                                  *)
(***************************************************************************)
VARIABLES
    users,            \* table Users: code -> row
    logins,           \* table Logins: rows in insertion order
    log_images,       \* files written by show_validation
    now,              \* the wall clock read by time.time()
    pc,               \* position of the process
    camera,           \* the VideoCapture handle
    authorized_users, \* QrLogger.authorized_users
    recent_accesses,  \* run's recent_accesses
    frame,            \* run's frame
    info,             \* the list process_qr returned
    status,           \* log_qr_activity's status
    user,             \* the row set_status read for the scan being logged
    ret               \* what the last direct call of the Users API returned

vars == <<users, logins, log_images, now, pc, camera, authorized_users,
          recent_accesses, frame, info, status, user, ret>>

memory == <<camera, authorized_users, recent_accesses, frame, info, status,
            user>>

NoCall == [op |-> "none", raised |-> FALSE, value |-> <<>>]

EmptyTable == [c \in {} |-> Row("", "", "", None)]

\* Before the program is first started: no database file, no process.
Init ==
    /\ users = EmptyTable
    /\ logins = <<>>
    /\ log_images = {}
    /\ now = 1
    /\ pc = "off"
    /\ camera = "closed"
    /\ authorized_users = {}
    /\ recent_accesses = <<>>
    /\ frame = NoFrame
    /\ info = <<>>
    /\ status = None
    /\ user = <<>>
    /\ ret = NoCall

(***************************************************************************)
(* main.py and QrLogger: one process at a time runs the scanning loop.     *)
(***************************************************************************)
\* main: QrLogger() builds Users() (tables, seeded users), reads the
\* whitelist once, then run() empties recent_accesses and opens the camera.
Main ==
    /\ pc \in {"off", "done", "raised", "killed"}
    /\ users' = users_init(users)
    /\ authorized_users' = get_whitelist(users')
    /\ recent_accesses' = <<>>
    /\ camera' = "open"
    /\ frame' = NoFrame
    /\ info' = <<>>
    /\ status' = None
    /\ user' = <<>>
    /\ pc' = "loop"
    /\ UNCHANGED <<logins, log_images, now, ret>>

\* run: cap.read() delivers fr, process_qr(frame, recent_accesses) is
\* evaluated, and log_qr_activity starts on its result.  A list of one
\* element makes log_qr_activity return at once.
Run_ProcessQr(fr) ==
    /\ pc = "loop"
    /\ now <= MaxTime
    /\ frame' = fr
    /\ IF process_qr_raises(fr)
          THEN /\ pc' = "raised"
               /\ UNCHANGED <<info, recent_accesses>>
          ELSE /\ info' = process_qr(fr, authorized_users, recent_accesses, now)
               /\ recent_accesses' =
                      process_qr_recent(fr, authorized_users, recent_accesses)
               /\ pc' = IF Len(info') > 1 THEN "set_status" ELSE "key"
    /\ UNCHANGED <<users, logins, log_images, now, camera, authorized_users,
                   status, user, ret>>

\* log_qr_activity, line 112: status = self.users.set_status(code).
Log_SetStatus ==
    /\ pc = "set_status"
    /\ IF set_status_raises(users, info[2])
          THEN /\ pc' = "raised"
               /\ UNCHANGED <<users, status>>
          ELSE /\ users' = set_status(users, info[2])
               /\ status' = set_status_ret(users, info[2])
               /\ pc' = "validate"
    /\ user' = get_info(users, info[2])
    /\ UNCHANGED <<logins, log_images, now, camera, authorized_users,
                   recent_accesses, frame, info, ret>>

\* The message log_qr_activity passes to show_validation.
validation_message(st) ==
    IF st = "Active" THEN "Logged In" ELSE "Logged Out"

\* show_validation: the annotated image is shown and written under the
\* name "<code> - <timestamp>.jpg" (an existing file of that name is
\* overwritten), then waitKey(VALIDATION_DELAY_MS) lets the clock advance.
show_validation(images, code, timestamp, message) ==
    {im \in images : ~(im.code = code /\ im.timestamp = timestamp)}
        \cup {[code |-> code, timestamp |-> timestamp, message |-> message]}

Log_ShowValidation ==
    /\ pc = "validate"
    /\ log_images' = show_validation(log_images, info[2], info[3],
                                     validation_message(status))
    /\ now' = now + 1
    /\ pc' = "ledger"
    /\ UNCHANGED <<users, logins, camera, authorized_users, recent_accesses,
                   frame, info, status, user, ret>>

\* log_qr_activity, lines 114-126: login when status is "Active", logout
\* otherwise.  An exception of login leaves run through the loop.
Log_Ledger ==
    /\ pc = "ledger"
    /\ IF status = "Active"
          THEN IF login_raises(logins, info[3])
                  THEN /\ pc' = "raised"
                       /\ UNCHANGED logins
                  ELSE /\ logins' = login(logins, info[3], info[2])
                       /\ pc' = "key"
          ELSE /\ logins' = logout(logins, info[2], info[3])
               /\ pc' = "key"
    /\ UNCHANGED <<users, log_images, now, camera, authorized_users,
                   recent_accesses, frame, info, status, user, ret>>

\* Variant of the end of an iteration: 'q' returns from inside the loop
\* ("return" for "break"), cap.release() is skipped.
Run_WaitKey_returns(q) ==
    /\ pc = "key"
    /\ pc' = IF q THEN "done" ELSE "loop"
    /\ UNCHANGED <<users, logins, log_images, now, camera, authorized_users,
                   recent_accesses, frame, info, status, user, ret>>

\* run, lines 192-197: the frame is shown; 'q' breaks the loop, releases
\* the camera and run returns.
Run_WaitKey(q) ==
    /\ pc = "key"
    /\ IF q
          THEN /\ camera' = "released"
               /\ pc' = "done"
          ELSE /\ pc' = "loop"
               /\ UNCHANGED camera
    /\ UNCHANGED <<users, logins, log_images, now, authorized_users,
                   recent_accesses, frame, info, status, user, ret>>

Next ==
    \/ Main
    \/ \E fr \in Frames : Run_ProcessQr(fr)
    \/ Log_SetStatus
    \/ Log_ShowValidation
    \/ Log_Ledger
    \/ \E q \in BOOLEAN : Run_WaitKey(q)

Spec == Init /\ [][Next]_vars

(***************************************************************************)
(* Faults of the environment: the process is killed, or SQLite reports an  *)
(* error (sqlite3.Error) on a write.                                       *)
(***************************************************************************)
\* The process ends where it stands (kill, power loss, KeyboardInterrupt):
\* the database and the log images stay as they are, the camera is not
\* released by run.
Crash ==
    /\ pc \in {"loop", "set_status", "validate", "ledger", "key"}
    /\ pc' = "killed"
    /\ UNCHANGED <<users, logins, log_images, now, memory, ret>>

\* The UPDATE or INSERT of set_status, login or logout fails: nothing is
\* committed, handle_sqlite_error raises Exception, and nothing between
\* there and main catches it.
Storage_Fail ==
    /\ pc \in {"set_status", "ledger"}
    /\ pc' = "raised"
    /\ UNCHANGED <<users, logins, log_images, now, memory, ret>>

NextFault == Next \/ Crash \/ Storage_Fail

SpecFault == Init /\ [][NextFault]_vars

(***************************************************************************)
(* Direct use of a Users object, as testing/test_users_dao.py does.        *)
(***************************************************************************)
\* What a caller of add_user, set_status, login and logout may pass.
DaoCodes == {"h65ld310", ExtraCode}
DaoNames == {<<"Ann", "Lee", "alee@gmail.com">>}
DaoStamps == 1..MaxStamp

\* The outcome of a call: whether it raised, and the value it returned.
Returned(op, raised, value) ==
    [op |-> op, raised |-> raised, value |-> value]

\* Users(): the constructor, on whatever database exists.
Dao_Users ==
    /\ users' = users_init(users)
    /\ ret' = Returned("Users", FALSE, <<>>)
    /\ UNCHANGED <<logins, log_images, now, pc, memory>>

Dao_add_user(code, names, st) ==
    /\ users' = add_user(users, code, names[1], names[2], names[3], st)
    /\ ret' = Returned("add_user", FALSE, <<>>)
    /\ UNCHANGED <<logins, log_images, now, pc, memory>>

\* Variant of set_status: the failure on a missing user is caught inside the
\* method ("except Exception") and None is returned.
Dao_set_status_swallows(code) ==
    /\ IF set_status_raises(users, code)
          THEN /\ ret' = Returned("set_status", FALSE, None)
               /\ UNCHANGED users
          ELSE /\ users' = set_status(users, code)
               /\ ret' = Returned("set_status", FALSE,
                                  set_status_ret(users, code))
    /\ UNCHANGED <<logins, log_images, now, pc, memory>>

Dao_set_status(code) ==
    /\ IF set_status_raises(users, code)
          THEN /\ ret' = Returned("set_status", TRUE, <<>>)
               /\ UNCHANGED users
          ELSE /\ users' = set_status(users, code)
               /\ ret' = Returned("set_status", FALSE,
                                  set_status_ret(users, code))
    /\ UNCHANGED <<logins, log_images, now, pc, memory>>

Dao_login(timestamp, code) ==
    /\ logins' = login(logins, timestamp, code)
    /\ ret' = Returned("login", login_raises(logins, timestamp), <<>>)
    /\ UNCHANGED <<users, log_images, now, pc, memory>>

Dao_logout(code, logoutTime) ==
    /\ logins' = logout(logins, code, logoutTime)
    /\ ret' = Returned("logout", FALSE, <<>>)
    /\ UNCHANGED <<users, log_images, now, pc, memory>>

Dao_get_info(code) ==
    /\ ret' = Returned("get_info", FALSE, get_info(users, code))
    /\ UNCHANGED <<users, logins, log_images, now, pc, memory>>

Dao_get_whitelist ==
    /\ ret' = Returned("get_whitelist", FALSE, get_whitelist(users))
    /\ UNCHANGED <<users, logins, log_images, now, pc, memory>>

NextDao ==
    \/ Dao_Users
    \/ \E c \in DaoCodes, n \in DaoNames, st \in Statuses : Dao_add_user(c, n, st)
    \/ \E c \in DaoCodes : Dao_set_status(c)
    \/ \E t \in DaoStamps, c \in DaoCodes : Dao_login(t, c)
    \/ \E c \in DaoCodes, t \in DaoStamps : Dao_logout(c, t)
    \/ \E c \in DaoCodes : Dao_get_info(c)
    \/ Dao_get_whitelist

\* A Users object constructed on a new database; no scanning process.
InitDao ==
    /\ users = users_init(EmptyTable)
    /\ logins = <<>>
    /\ log_images = {}
    /\ now = 1
    /\ pc = "off"
    /\ camera = "closed"
    /\ authorized_users = {}
    /\ recent_accesses = <<>>
    /\ frame = NoFrame
    /\ info = <<>>
    /\ status = None
    /\ user = <<>>
    /\ ret = NoCall

SpecDao == InitDao /\ [][NextDao]_vars

(***************************************************************************)
(* The run loop next to an administrator: a second Users object (another   *)
(* process, or a script) calls add_user on the same database file at any   *)
(* moment of the run.                                                      *)
(***************************************************************************)
\* The administrator's Users object exists (its constructor has made and
\* seeded the tables) before it calls add_user.
Admin_add_user(code, names, st) ==
    /\ SeedCodes \subseteq DOMAIN users
    /\ Dao_add_user(code, names, st)

NextAdmin ==
    \/ Next
    \/ \E c \in DaoCodes, n \in DaoNames, st \in Statuses : Admin_add_user(c, n, st)

SpecAdmin == Init /\ [][NextAdmin]_vars

(***************************************************************************)
(* Vocabulary of the properties.                                           *)
(***************************************************************************)
\* The open sessions of a user: the Logins rows with logoutTime NULL.
OpenRows(L, c) ==
    {i \in 1..Len(L) : L[i].userCode = c /\ L[i].logoutTime = NullTime}

\* All Logins rows of a user.
RowsOf(L, c) == {i \in 1..Len(L) : L[i].userCode = c}

LastRowOf(L, c) == CHOOSE i \in RowsOf(L, c) : \A j \in RowsOf(L, c) : j <= i

NewRow(timestamp, c) ==
    [timestamp |-> timestamp, logoutTime |-> NullTime, userCode |-> c]

\* Steps of the loop, read off the position before and after.
FrameStep == pc = "loop" /\ pc' \in {"set_status", "key", "raised"}
AcceptStep == pc = "loop" /\ pc' = "set_status"
SetStatusStep == pc = "set_status" /\ pc' = "validate"
LedgerStep == pc = "ledger" /\ pc' = "key"
LedgerFailStep == pc = "ledger" /\ pc' = "raised"

(***************************************************************************)
(* C1.  Ledger integrity: whatever scans have been logged, every user has  *)
(* at most one Logins row whose logoutTime is NULL.                        *)
(* Fails under SpecFault: when logout fails after set_status stored        *)
(* 'Inactive' (C6), the session stays open and the next scan opens another.*)
(***************************************************************************)
C1_LedgerIntegrity ==
    \A c \in DOMAIN users : Cardinality(OpenRows(logins, c)) <= 1

(***************************************************************************)
(* C2.  Two successive accepted scans of a whitelisted code whose status   *)
(* is unset or Inactive: the first stores 'Active' and appends exactly one *)
(* row (timestamp, NULL, code); the second stores 'Inactive', closes that  *)
(* same row (the last row of the code) with its timestamp and adds no row. *)
(* Stated of scans whose two writes both complete (specification Spec).    *)
(***************************************************************************)
C2_TwoScansToggle ==
    [][\A c \in DOMAIN users :
         /\ (SetStatusStep /\ info[2] = c /\ users[c].status \in {None, "Inactive"})
              => /\ users'[c].status = "Active"
                 /\ status' = "Active"
                 /\ logins' = logins
         /\ (LedgerStep /\ info[2] = c /\ users[c].status = "Active")
              => /\ logins' = Append(logins, NewRow(info[3], c))
                 /\ OpenRows(logins', c) = {Len(logins')}
         /\ (SetStatusStep /\ info[2] = c /\ users[c].status = "Active")
              => /\ users'[c].status = "Inactive"
                 /\ status' = "Inactive"
                 /\ logins' = logins
         /\ (LedgerStep /\ info[2] = c /\ users[c].status = "Inactive")
              => /\ Len(logins') = Len(logins)
                 /\ RowsOf(logins, c) # {}
                 /\ OpenRows(logins, c) = {LastRowOf(logins, c)}
                 /\ OpenRows(logins', c) = {}
                 /\ \A i \in 1..Len(logins) :
                        logins'[i] =
                            IF i = LastRowOf(logins, c)
                                THEN [logins[i] EXCEPT !.logoutTime = info[3]]
                                ELSE logins[i]
      ]_vars

\* The second scan of a code has just been logged: its row is closed.
C2_Witness ==
    /\ pc = "key"
    /\ Len(info) = 3
    /\ users[info[2]].status = "Inactive"
    /\ RowsOf(logins, info[2]) # {}
    /\ logins[LastRowOf(logins, info[2])].logoutTime = info[3]

(***************************************************************************)
(* C3.  Deduplication: a whitelisted code shown in N >= 1 consecutive      *)
(* frames yields exactly one accepted scan: the first frame of the block   *)
(* (the frame before it did not show the code) is accepted, every further  *)
(* frame of the block is not.                                              *)
(* Fails on the first frame of a block when the code is also the last one  *)
(* accepted (C4): the block yields no event at all.                        *)
(***************************************************************************)
C3_DedupExactlyOne ==
    [][\A c \in authorized_users :
         (FrameStep /\ frame' = c) => (AcceptStep <=> frame # c)
      ]_vars

(***************************************************************************)
(* C4.  Absence reset: a whitelisted code that was the last one accepted   *)
(* is accepted again when it is shown after a frame without any QR code.   *)
(***************************************************************************)
C4_AbsenceReset ==
    [][\A c \in authorized_users :
         (/\ FrameStep
          /\ Len(recent_accesses) > 0
          /\ recent_accesses[Len(recent_accesses)] = c
          /\ frame = NoQR
          /\ frame' = c) => AcceptStep
      ]_vars

(***************************************************************************)
(* C5.  A frame showing a code that no user has: process_qr returns the    *)
(* frame alone and log_qr_activity returns without a write; Logins, every  *)
(* status and recent_accesses are unchanged.                               *)
(***************************************************************************)
C5_UnknownCodeIgnored ==
    [][(FrameStep /\ frame' \in Payloads \ DOMAIN users)
         => /\ info' = <<frame'>>
            /\ pc' = "key"
            /\ logins' = logins
            /\ users' = users
            /\ recent_accesses' = recent_accesses
      ]_vars

\* An unknown code has been shown after a scan was accepted.
C5_Witness ==
    /\ pc = "key"
    /\ frame = UnknownCode
    /\ info = <<UnknownCode>>
    /\ Len(recent_accesses) > 0
    /\ logins # <<>>

(***************************************************************************)
(* C6.  Atomicity of a scan: when the ledger write fails after set_status  *)
(* has run, the stored status is again the one set_status read.            *)
(* Fails: set_status has committed and nothing undoes it.                  *)
(***************************************************************************)
C6_AtomicScan ==
    [][LedgerFailStep => users'[info[2]].status = user[5]]_vars

(***************************************************************************)
(* C7.  Status/ledger consistency: whenever the loop is about to read a    *)
(* frame, also after a failure or a crash and a restart, a user is         *)
(* 'Active' exactly when the user has an open Logins row.                  *)
(***************************************************************************)
C7_StatusMatchesLedger ==
    pc = "loop" =>
        \A c \in DOMAIN users :
            users[c].status = "Active" <=> OpenRows(logins, c) # {}

(***************************************************************************)
(* C8.  logout(userCode, t) for a user without an open row raises an error *)
(* and creates or modifies no row.                                         *)
(* Fails: the UPDATE matches no row and logout returns normally.           *)
(***************************************************************************)
C8_LogoutWithoutSessionRaises ==
    [][ret'.op = "logout" =>
         \A c \in DaoCodes, t \in DaoStamps :
            (Dao_logout(c, t) /\ OpenRows(logins, c) = {})
               => (ret'.raised /\ logins' = logins)
      ]_vars

(***************************************************************************)
(* C9.  login(t, userCode): when t is not yet a key, exactly one row       *)
(* (t, NULL, userCode) is added and nothing else changes; when t is a key, *)
(* login raises and Logins is unchanged.                                   *)
(***************************************************************************)
C9_LoginInsertsOrRaises ==
    [][ret'.op = "login" =>
         \A t \in DaoStamps, c \in DaoCodes :
            Dao_login(t, c) =>
               IF \E i \in 1..Len(logins) : logins[i].timestamp = t
                   THEN ret'.raised /\ logins' = logins
                   ELSE /\ ~ret'.raised
                        /\ Len(logins') = Len(logins) + 1
                        /\ SubSeq(logins', 1, Len(logins)) = logins
                        /\ logins'[Len(logins')] = NewRow(t, c)
      ]_vars

\* A login with a timestamp that is already a key has been refused.
C9_Witness ==
    /\ ret.op = "login"
    /\ ret.raised
    /\ Len(logins) >= 1

(***************************************************************************)
(* C10.  add_user with a code already present, and the two add_user calls  *)
(* of a new Users object on an existing database, raise nothing and leave  *)
(* every existing row, its status included, as it was.                     *)
(***************************************************************************)
C10_AddUserIdempotent ==
    [][ret'.op \in {"add_user", "Users"}
         => /\ ~ret'.raised
            /\ \A c \in DOMAIN users :
                   c \in DOMAIN users' /\ users'[c] = users[c]
      ]_vars

\* A Users object has been constructed while a seeded user was 'Active'.
C10_Witness ==
    /\ ret.op = "Users"
    /\ \E c \in SeedCodes : users[c].status = "Active"

(***************************************************************************)
(* C11.  Round trip as claimed: after add_user(code, first, last, email,   *)
(* status), get_info(code) returns exactly the tuple supplied.             *)
(* Fails when the code is already present: INSERT OR IGNORE keeps the      *)
(* stored row (C10), and get_info returns that row.                        *)
(***************************************************************************)
C11_RoundTripAnyCode ==
    [][ret'.op = "add_user" =>
         \A c \in DaoCodes, n \in DaoNames, st \in Statuses :
            Dao_add_user(c, n, st)
               => get_info(users', c) = <<c, n[1], n[2], n[3], st>>
      ]_vars

(***************************************************************************)
(* C11, amended.  After add_user with a code that is not yet in Users,     *)
(* get_info(code) returns exactly the tuple supplied; with a code that is  *)
(* already present it returns the row stored before the call.              *)
(***************************************************************************)
C11_RoundTripNewCode ==
    [][ret'.op = "add_user" =>
         \A c \in DaoCodes, n \in DaoNames, st \in Statuses :
            Dao_add_user(c, n, st)
               => get_info(users', c) =
                     IF c \in DOMAIN users
                         THEN get_info(users, c)
                         ELSE <<c, n[1], n[2], n[3], st>>
      ]_vars

\* A new user has just been added with a status other than None.
C11_Witness ==
    /\ ret.op = "add_user"
    /\ get_info(users, ExtraCode) =
           <<ExtraCode, "Ann", "Lee", "alee@gmail.com", "Pending">>

(***************************************************************************)
(* C12.  As claimed: get_whitelist, called after users have been added,    *)
(* returns the codes of the users the caller added and no other code.      *)
(* The callers of this specification add codes of DaoCodes only.  Fails    *)
(* because Users.__init__ seeds two users of its own.                      *)
(***************************************************************************)
C12_WhitelistOnlyAdded ==
    (ret.op = "get_whitelist" /\ ExtraCode \in DOMAIN users)
        => /\ DaoCodes \subseteq ret.value
           /\ ret.value \subseteq DaoCodes

(***************************************************************************)
(* C12, amended.  get_whitelist returns exactly the codes of the Users     *)
(* table: the codes of the users added by add_user, the two codes seeded   *)
(* by the constructor, and no other code.                                  *)
(***************************************************************************)
C12_WhitelistIsUsersTable ==
    [][/\ ret'.op = "get_whitelist"
          => /\ ~ret'.raised
             /\ ret'.value = DOMAIN users
             /\ SeedCodes \subseteq ret'.value
             /\ ret'.value \subseteq SeedCodes \cup DaoCodes
             /\ users' = users
       /\ ret'.op = "add_user"
          => \A c \in DaoCodes, n \in DaoNames, st \in Statuses :
                Dao_add_user(c, n, st) => c \in get_whitelist(users')
      ]_vars

\* get_whitelist has returned after a user was added to the seeded two.
C12_Witness ==
    /\ ret.op = "get_whitelist"
    /\ ret.value = SeedCodes \cup {ExtraCode}

(***************************************************************************)
(* C13.  Whitelist freshness: at every frame the codes the scanner treats  *)
(* as authorized are the codes of the Users table, and a frame showing the *)
(* code of a user (not the code accepted last) is accepted.                *)
(* Fails: QrLogger.__init__ reads the whitelist once and process_qr keeps  *)
(* testing against that copy.                                              *)
(***************************************************************************)
C13_WhitelistFresh ==
    [][/\ pc = "loop" => authorized_users = DOMAIN users
       /\ (/\ FrameStep
           /\ frame' \in DOMAIN users
           /\ (Len(recent_accesses) = 0
                 \/ recent_accesses[Len(recent_accesses)] # frame'))
          => AcceptStep
      ]_vars

(***************************************************************************)
(* C14.  set_status(code) for a code that is not in Users fails with an    *)
(* error that reaches the caller (get_info returns None and user[4]        *)
(* raises; nothing in set_status catches it), and leaves every user's      *)
(* status and the Logins table unchanged.                                  *)
(***************************************************************************)
C14_SetStatusUnknownFails ==
    [][ret'.op = "set_status" =>
         \A c \in DaoCodes :
            (Dao_set_status(c) /\ c \notin DOMAIN users)
               => /\ ret'.raised
                  /\ users' = users
                  /\ logins' = logins
      ]_vars

\* set_status has failed on a code that has no user, with rows in both tables.
C14_Witness ==
    /\ ret.op = "set_status"
    /\ ret.raised
    /\ ExtraCode \notin DOMAIN users
    /\ logins # <<>>

(***************************************************************************)
(* C15.  Referential integrity: in every reachable state the userCode of   *)
(* every Logins row is the code of a Users row.                            *)
(* Fails for direct calls: the schema declares the FOREIGN KEY, but no     *)
(* connection enables foreign key enforcement, so login inserts the row.   *)
(***************************************************************************)
C15_ReferentialIntegrity ==
    \A i \in 1..Len(logins) : logins[i].userCode \in DOMAIN users

(***************************************************************************)
(* C16.  Per-frame isolation of storage errors: while a scan is being      *)
(* logged, a failure of set_status, login or logout does not end the run   *)
(* loop.                                                                   *)
(* Fails: handle_sqlite_error raises Exception, and neither                *)
(* log_qr_activity nor run catches it.                                     *)
(***************************************************************************)
C16_StorageErrorIsolated ==
    [][(pc = "set_status" \/ pc = "ledger") => pc' # "raised"
      ]_vars

(***************************************************************************)
(* C17.  Decode failure is recoverable: when the decoder raises on a       *)
(* frame, process_qr returns a list holding only that frame,               *)
(* recent_accesses, the statuses and the ledger are unchanged, and the run *)
(* loop continues with the next frame.                                     *)
(* Fails: decode is called before info is assigned, so "return info" in    *)
(* the except branch raises and the exception ends run.                    *)
(***************************************************************************)
C17_DecodeFailureRecoverable ==
    [][(FrameStep /\ frame' = Undecodable)
          => /\ info' = <<frame'>>
             /\ pc' = "key"
             /\ recent_accesses' = recent_accesses
             /\ users' = users
             /\ logins' = logins
      ]_vars

(***************************************************************************)
(* C18.  Clean shutdown: the step that observes the quit key at the end of *)
(* an iteration releases the camera and changes no status, ledger row or   *)
(* snapshot; once run has returned the camera is released, and the only    *)
(* step left is a new start of main, which reads no frame and changes      *)
(* neither table.                                                          *)
(***************************************************************************)
C18_CleanShutdown ==
    [][/\ (pc = "key" /\ pc' = "done")
          => /\ camera' = "released"
             /\ users' = users
             /\ logins' = logins
             /\ log_images' = log_images
       /\ pc = "done"
          => /\ camera = "released"
             /\ ~FrameStep
             /\ pc' = "loop"
             /\ frame' = NoFrame
             /\ users' = users
             /\ logins' = logins
             /\ log_images' = log_images
      ]_vars

\* run has returned on the quit key after scans were logged.
C18_Witness ==
    /\ pc = "done"
    /\ camera = "released"
    /\ logins # <<>>
    /\ \E c \in SeedCodes : users[c].status = "Active"

(***************************************************************************)
(* C19.  When cap.read returns no frame, the run ends gracefully: whenever *)
(* the run has ended on such a frame, it has returned normally and the     *)
(* camera is released.                                                     *)
(* Fails: the frame None goes to process_qr, decode raises, the except     *)
(* branch raises in turn, and run ends by that exception before            *)
(* cap.release().                                                          *)
(***************************************************************************)
C19_ReadFailureEndsGracefully ==
    (frame = ReadFail /\ (pc = "done" \/ pc = "raised"))
        => (pc = "done" /\ camera = "released")

(***************************************************************************)
(* C20.  A Logins row is closed once and never deleted: no operation       *)
(* removes a row or changes its timestamp or userCode; a row whose         *)
(* logoutTime is set is never changed again; and a row changes only in a   *)
(* logout(code, logoutTime) call, which sets logoutTime on a row of that   *)
(* code that was open.                                                     *)
(***************************************************************************)
C20_ClosedOnceNeverDeleted ==
    [][logins' # logins =>
         /\ Len(logins') >= Len(logins)
         /\ \A i \in 1..Len(logins) :
               /\ logins'[i].timestamp = logins[i].timestamp
               /\ logins'[i].userCode = logins[i].userCode
               /\ logins[i].logoutTime # NullTime => logins'[i] = logins[i]
               /\ logins'[i] # logins[i]
                  => /\ ret'.op = "logout"
                     /\ \E c \in DaoCodes, t \in DaoStamps :
                           /\ Dao_logout(c, t)
                           /\ logins[i].userCode = c
                           /\ logins[i].logoutTime = NullTime
                           /\ logins'[i].logoutTime = t
      ]_vars

\* A user has two rows closed at different times: the later logout left the
\* row closed earlier as it was.
C20_Witness ==
    /\ ret.op = "logout"
    /\ \E i, j \in 1..Len(logins) :
          /\ i < j
          /\ logins[i].userCode = logins[j].userCode
          /\ logins[i].logoutTime # NullTime
          /\ logins[j].logoutTime # NullTime
          /\ logins[i].logoutTime # logins[j].logoutTime

(***************************************************************************)
(* C21.  Ledger ordering.  The timestamp of an accepted scan, sampled once *)
(* in process_qr, is not before any timestamp or logoutTime already in the *)
(* ledger; the ledger write of a scan uses that sample; after every ledger *)
(* write the rows are in non-decreasing timestamp order and every closed   *)
(* row has logoutTime >= its login timestamp.                              *)
(***************************************************************************)
C21_LedgerOrdering ==
    [][/\ AcceptStep
          => /\ info'[3] = now
             /\ \A i \in 1..Len(logins) :
                   /\ logins[i].timestamp <= info'[3]
                   /\ logins[i].logoutTime <= info'[3]
       /\ LedgerStep
          => /\ \A i \in 1..Len(logins') :
                   logins'[i] # (IF i <= Len(logins) THEN logins[i] ELSE <<>>)
                      => \/ logins'[i].timestamp = info[3]
                         \/ logins'[i].logoutTime = info[3]
             /\ \A i, j \in 1..Len(logins') :
                   i < j => logins'[i].timestamp <= logins'[j].timestamp
             /\ \A i \in 1..Len(logins') :
                   logins'[i].logoutTime # NullTime
                      => logins'[i].logoutTime >= logins'[i].timestamp
      ]_vars

\* Two scans of one user and a later scan of another are in the ledger: a
\* row closed after it was opened, followed by a later row.
C21_Witness ==
    /\ pc = "key"
    /\ Len(logins) >= 2
    /\ logins[1].logoutTime > logins[1].timestamp
    /\ logins[2].timestamp >= logins[1].logoutTime
    /\ logins[2].userCode # logins[1].userCode

(***************************************************************************)
(* C22.  Snapshot after the writes: every snapshot in the log image        *)
(* directory belongs to a scan whose ledger write has happened, a 'Logged  *)
(* In' snapshot to a Logins row with its code and timestamp, a 'Logged     *)
(* Out' snapshot to a row of its code closed at its timestamp.             *)
(* Fails: log_qr_activity calls show_validation, which writes the file and *)
(* waits, before it calls login or logout.                                 *)
(***************************************************************************)
C22_SnapshotAfterWrites ==
    \A im \in log_images :
       \E i \in 1..Len(logins) :
          /\ logins[i].userCode = im.code
          /\ IF im.message = "Logged In"
                 THEN logins[i].timestamp = im.timestamp
                 ELSE logins[i].logoutTime = im.timestamp

(***************************************************************************)
(* C23.  Accept rule of process_qr.  On a frame the decoder handles, the   *)
(* code is accepted if and only if it is in authorized_users and           *)
(* recent_accesses is empty or ends with another code.  On acceptance the  *)
(* code is appended to recent_accesses and [frame, code, timestamp] is     *)
(* returned; otherwise [frame] is returned and recent_accesses is          *)
(* unchanged.  (Witness: the codes A, B, A give three accepted events.)    *)
(***************************************************************************)
C23_AcceptRule ==
    [][(FrameStep /\ frame' \in Payloads \cup {NoQR})
          => IF /\ frame' \in authorized_users
                /\ (Len(recent_accesses) = 0
                      \/ recent_accesses[Len(recent_accesses)] # frame')
                 THEN /\ AcceptStep
                      /\ recent_accesses' = Append(recent_accesses, frame')
                      /\ info' = <<frame', frame', now>>
                 ELSE /\ pc' = "key"
                      /\ recent_accesses' = recent_accesses
                      /\ info' = <<frame'>>
      ]_vars

\* A, B, A: three accepted events, the third being logged.
C23_Witness ==
    /\ recent_accesses = <<"h65ld310", "d08ae169", "h65ld310">>
    /\ pc = "set_status"
    /\ Len(info) = 3
    /\ info[2] = "h65ld310"
    /\ Len(logins) = 2

(***************************************************************************)
(* C24.  For every user in the Users table, whatever status the row holds, *)
(* set_status(code) returns 'Active' or 'Inactive', and the value returned *)
(* is the status stored for the user after the call.                       *)
(* Fails for a status other than None, 'Active' and 'Inactive', which      *)
(* add_user stores as given: set_status prints a message, returns None and *)
(* leaves the row as it is.                                                *)
(***************************************************************************)
C24_SetStatusReturnsStoredStatus ==
    [][ret'.op = "set_status" =>
         \A c \in DaoCodes :
            (Dao_set_status(c) /\ c \in DOMAIN users)
               => /\ ~ret'.raised
                  /\ ret'.value \in {"Active", "Inactive"}
                  /\ users'[c].status = ret'.value
      ]_vars

(***************************************************************************)
(* C25.  Frame condition of a scan.  While an accepted scan of code c is   *)
(* logged, set_status changes only the status of c and no Logins row;      *)
(* show_validation changes neither table; the ledger write changes no user *)
(* and either inserts one row whose userCode is c or closes the one open   *)
(* row of c, every other row staying as it was.                            *)
(***************************************************************************)
C25_ScanFrameCondition ==
    [][/\ SetStatusStep
          => /\ logins' = logins
             /\ DOMAIN users' = DOMAIN users
             /\ \A c \in DOMAIN users :
                   /\ c # info[2] => users'[c] = users[c]
                   /\ users'[c] = [users[c] EXCEPT !.status = users'[c].status]
       /\ pc = "validate"
          => /\ users' = users
             /\ logins' = logins
       /\ LedgerStep
          => /\ users' = users
             /\ \/ logins' = Append(logins, NewRow(info[3], info[2]))
                \/ /\ Len(logins') = Len(logins)
                   /\ \E i \in OpenRows(logins, info[2]) :
                         /\ logins' = [logins EXCEPT ![i].logoutTime = info[3]]
                         /\ OpenRows(logins, info[2]) = {i}
      ]_vars

\* A scan of one user has been logged while the other user stays logged in.
C25_Witness ==
    /\ pc = "key"
    /\ Len(info) = 3
    /\ info[2] = "d08ae169"
    /\ users["d08ae169"].status = "Inactive"
    /\ users["h65ld310"].status = "Active"
    /\ OpenRows(logins, "h65ld310") # {}
    /\ Len(logins) = 2

====
